---- MODULE Spec2Model ----
(***************************************************************************)
(* Model of dynophores/base.py: the filename parser                        *)
(* (Dynophore._get_file_components), the directory loader                  *)
(* (Dynophore.from_file), the three entity classes (Dynophore,             *)
(* Superfeature, EnvPartner) and their aggregates (count, n_frames).       *)
(*                                                                         *)
(* Conventions                                                             *)
(*  - the parser works on a Python str as the sequence of its characters   *)
(*    (one-character strings); the loader's states hold strings;           *)
(*  - a Python value that may be None is <<>> for None and <<v>> for v;    *)
(*  - a Python call that may raise returns [exc |-> e, val |-> v], where   *)
(*    e is "None" or the name of the exception raised;                     *)
(*  - a numpy array is [nd |-> 0 or 1, data |-> sequence]: np.loadtxt      *)
(*    squeezes its result, so a one-row file yields a 0-d array, on which  *)
(*    len() and iteration raise TypeError;                                 *)
(*  - a distance is an integer number of tenths (12 stands for 1.2).       *)
(***************************************************************************)
EXTENDS Integers, Sequences, FiniteSets, TLC

VARIABLES
    fs,               \* the directory: a set of files [name, content]
    self,             \* the Dynophore object: [id, superfeatures]
    loaded,           \* the listing (glob order) self was last built from
    outcome,          \* exception of the last from_file call, "None", or "init"
    filepath,         \* the parser's argument (parser specification)
    file_components,  \* the parser's result for filepath (parser specification)
    arg_occurrences,  \* EnvPartner's argument (EnvPartner specification)
    arg_distances,    \* EnvPartner's argument (EnvPartner specification)
    new_envpartner,   \* result of EnvPartner(..., occurrences, distances)
    read_frequency    \* result of reading frequency on new_envpartner

vars == <<fs, self, loaded, outcome, filepath, file_components,
          arg_occurrences, arg_distances, new_envpartner, read_frequency>>

\* the variables of the EnvPartner specification
envpartner_vars == <<arg_occurrences, arg_distances, new_envpartner, read_frequency>>

----------------------------------------------------------------------------
(* Python str and int primitives used by the parser *)

None == <<>>
Some(v) == <<v>>
IsNone(x) == Len(x) = 0
Get(x) == x[1]

Raise(e) == [exc |-> e, val |-> <<>>]
Return(v) == [exc |-> "None", val |-> v]

\* the rest of a block after a call: skipped when the call raised
Then(r, Rest(_)) == IF r.exc # "None" THEN Raise(r.exc) ELSE Rest(r.val)

\* str.split(sep) for a one-character separator
RECURSIVE SplitFrom(_, _, _, _)
SplitFrom(s, sep, i, cur) ==
    IF i > Len(s) THEN <<cur>>
    ELSE IF s[i] = sep THEN <<cur>> \o SplitFrom(s, sep, i + 1, <<>>)
    ELSE SplitFrom(s, sep, i + 1, Append(cur, s[i]))

str_split(s, sep) == SplitFrom(s, sep, 1, <<>>)

\* sep.join(parts)
RECURSIVE str_join(_, _)
str_join(sep, parts) ==
    IF Len(parts) = 0 THEN <<>>
    ELSE IF Len(parts) = 1 THEN parts[1]
    ELSE parts[1] \o <<sep>> \o str_join(sep, Tail(parts))

\* s[:-1]
DropLast(s) == IF Len(s) = 0 THEN s ELSE SubSeq(s, 1, Len(s) - 1)

DigitVal ==
    [c \in {"0", "1", "2", "3", "4", "5", "6", "7", "8", "9"} |->
        CASE c = "0" -> 0 [] c = "1" -> 1 [] c = "2" -> 2 [] c = "3" -> 3
          [] c = "4" -> 4 [] c = "5" -> 5 [] c = "6" -> 6 [] c = "7" -> 7
          [] c = "8" -> 8 [] c = "9" -> 9]

IsDigit(c) == c \in DOMAIN DigitVal

RECURSIVE DigitsVal(_, _)
DigitsVal(s, acc) ==
    IF Len(s) = 0 THEN acc ELSE DigitsVal(Tail(s), acc * 10 + DigitVal[s[1]])

\* int(s): an optional sign and at least one digit (the file names of the
\* model hold no whitespace, and no '_' is left inside a segment)
int(s) ==
    LET signed == Len(s) > 0 /\ s[1] \in {"+", "-"}
        body == IF signed THEN Tail(s) ELSE s
    IN  IF Len(body) = 0 \/ \E i \in 1..Len(body) : ~IsDigit(body[i])
        THEN Raise("ValueError")
        ELSE Return(IF signed /\ s[1] = "-" THEN 0 - DigitsVal(body, 0)
                    ELSE DigitsVal(body, 0))

\* [int(atom) for atom in atoms]
RECURSIVE int_each(_, _)
int_each(atoms, numbers) ==
    IF Len(atoms) = 0 THEN Return(numbers)
    ELSE Then(int(atoms[1]),
              LAMBDA number : int_each(Tail(atoms), Append(numbers, number)))

\* [int(atom) for atom in token.split("[")[1][:-1].split(",")]
atom_numbers_of(token) ==
    LET parts == str_split(token, "[")
    IN  IF Len(parts) < 2 THEN Raise("IndexError")
        ELSE int_each(str_split(DropLast(parts[2]), ","), <<>>)

\* pathlib's PurePath.stem: the name without its last suffix
RECURSIVE LastDot(_, _)
LastDot(name, i) ==
    IF i = 0 THEN 0 ELSE IF name[i] = "." THEN i ELSE LastDot(name, i - 1)

stem(name) ==
    LET i == LastDot(name, Len(name))
    IN  IF 1 < i /\ i < Len(name) THEN SubSeq(name, 1, i - 1) ELSE name

\* str(n) for an integer n
RECURSIVE NatStr(_)
NatStr(n) ==
    LET digit == CHOOSE c \in DOMAIN DigitVal : DigitVal[c] = n % 10
    IN  IF n < 10 THEN <<digit>> ELSE Append(NatStr(n \div 10), digit)

int_str(n) == IF n < 0 THEN <<"-">> \o NatStr(0 - n) ELSE NatStr(n)

----------------------------------------------------------------------------
(* Dynophore._get_file_components *)

\* the id built from the residue name, the number and the chain alone
envpartner_id_without_atoms(file_split) ==
    str_join("-", <<file_split[7], int_str(int(file_split[8]).val),
                    str_split(file_split[9], "[")[1]>>)

\* "-".join(file_split[6:9])
envpartner_id_of(file_split) == str_join("-", SubSeq(file_split, 7, 9))

\* the test with >= for ==
has_envpartner_or_more(file_split) == Len(file_split) >= 10

\* len(file_split) == 10
has_envpartner(file_split) == Len(file_split) = 10

\* the body of _get_file_components, given the split stem
decode(path, file_split) ==
    IF Len(file_split) < 4 THEN Raise("IndexError")
    ELSE
    Then(atom_numbers_of(file_split[4]), LAMBDA superfeature_atom_numbers :
        LET base == [filepath |-> path,
                     dynophore_id |-> file_split[1],
                     superfeature_id |-> file_split[4],
                     superfeature_feature_type |-> str_split(file_split[4], "[")[1],
                     superfeature_atom_numbers |-> superfeature_atom_numbers,
                     envpartner_id |-> None,
                     envpartner_residue_name |-> None,
                     envpartner_residue_number |-> None,
                     envpartner_chain |-> None,
                     envpartner_atom_numbers |-> None]
        IN  IF ~has_envpartner(file_split) THEN Return(base)
            ELSE
            Then(int(file_split[8]), LAMBDA residue_number :
            Then(atom_numbers_of(file_split[9]), LAMBDA envpartner_atom_numbers :
                Return([base EXCEPT
                    !.envpartner_id = Some(envpartner_id_of(file_split)),
                    !.envpartner_residue_name = Some(file_split[7]),
                    !.envpartner_residue_number = Some(residue_number),
                    !.envpartner_chain = Some(str_split(file_split[9], "[")[1]),
                    !.envpartner_atom_numbers = Some(envpartner_atom_numbers)]))))

get_file_components(path) == decode(path, str_split(stem(path), "_"))

----------------------------------------------------------------------------
(* File names.  The segments the parser never looks at are written as in the
   example names of _get_file_components. *)

s_dynophore == <<"D">>
s_data == <<"d", "a", "t", "a">>
s_superfeature == <<"s", "u", "p", "e", "r", "f", "e", "a", "t", "u", "r", "e">>
s_envpartner == <<"e", "n", "v", "p", "a", "r", "t", "n", "e", "r">>
s_freq == <<"5", "0", ".", "0">>
s_freq2 == <<"1", ".", "6">>
s_ASP == <<"A", "S", "P">>
s_extra == <<"x">>
s_txt == <<".", "t", "x", "t">>

\* superfeature tokens: <feature_type>[<atom ids>] and malformed variants
SuperfeatureTokens ==
    { <<"H", "[", "1", ",", "2", "]">>,   \* H[1,2]
      <<"H", "B", "A", "[", "3", "]">>,   \* HBA[3]
      <<"H", "[", "1", "2">>,   \* H[12
      <<"H", "[", "1", "2", "x">>,   \* H[12x
      <<"H">>,   \* H
      <<"H", "1", ",", "2", "]">>,   \* H1,2]
      <<"H", "[", "a", "]">>,   \* H[a]
      <<"H", "[", "]">>,   \* H[]
      <<"H", "[", "1", ",", "2">>,   \* H[1,2
      <<"H", "[", "1", "]", "[", "2", "]">>    \* H[1][2]
    }

\* residue-number segments
ResidueNumbers ==
    { <<"8", "6">>,   \* 86
      <<"0", "8", "6">>,   \* 086
      <<"8", "x">>    \* 8x
    }

\* chain tokens: <chain>[<atom ids>] and malformed variants
ChainTokens ==
    { <<"A", "[", "1", "0", "]">>,   \* A[10]
      <<"B", "[", "7", ",", "8", "]">>,   \* B[7,8]
      <<"A">>,   \* A
      <<"A", "[", "1", "0">>,   \* A[10
      <<"A", "[", "x", "]">>    \* A[x]
    }

Suffixes == { s_txt, <<>> }

\* the longest file name of the parser specification, in '_'-separated segments
MaxSegments == 11

AllSegments(sf, num, chain) ==
    <<s_dynophore, s_data, s_superfeature, sf, s_freq,
      s_envpartner, s_ASP, num, chain, s_freq2>>

\* the name made of the first k segments (padded with extra segments past 10)
FileName(k, sf, num, chain, suffix) ==
    LET all == AllSegments(sf, num, chain)
    IN  str_join("_", [i \in 1..k |-> IF i <= Len(all) THEN all[i] ELSE s_extra])
        \o suffix

ParserNames ==
    { FileName(k, sf, num, chain, suffix) :
        k \in 1..MaxSegments, sf \in SuperfeatureTokens,
        num \in ResidueNumbers, chain \in ChainTokens, suffix \in Suffixes }

----------------------------------------------------------------------------
(* The strings of the loader specification.  TLC cannot take a string apart,
   so the states hold strings and this table gives each one's characters,
   which is what the parser works on. *)

StrTable ==
    { <<"D_data_superfeature_H[1,2]_50.0.txt",
         <<"D", "_", "d", "a", "t", "a", "_", "s", "u", "p", "e", "r", "f",
         "e", "a", "t", "u", "r", "e", "_", "H", "[", "1", ",", "2", "]",
         "_", "5", "0", ".", "0", ".", "t", "x", "t">> >>,
      <<"D_data_superfeature_H[1,2]_60.0.txt",
         <<"D", "_", "d", "a", "t", "a", "_", "s", "u", "p", "e", "r", "f",
         "e", "a", "t", "u", "r", "e", "_", "H", "[", "1", ",", "2", "]",
         "_", "6", "0", ".", "0", ".", "t", "x", "t">> >>,
      <<"D_data_superfeature_HBA[3]_50.0.txt",
         <<"D", "_", "d", "a", "t", "a", "_", "s", "u", "p", "e", "r", "f",
         "e", "a", "t", "u", "r", "e", "_", "H", "B", "A", "[", "3", "]",
         "_", "5", "0", ".", "0", ".", "t", "x", "t">> >>,
      <<"D_data_superfeature_H[1,2]_50.0_envpartner_ASP_86_A[10]_1.6.txt",
         <<"D", "_", "d", "a", "t", "a", "_", "s", "u", "p", "e", "r", "f",
         "e", "a", "t", "u", "r", "e", "_", "H", "[", "1", ",", "2", "]",
         "_", "5", "0", ".", "0", "_", "e", "n", "v", "p", "a", "r", "t",
         "n", "e", "r", "_", "A", "S", "P", "_", "8", "6", "_", "A", "[",
         "1", "0", "]", "_", "1", ".", "6", ".", "t", "x", "t">> >>,
      <<"D_data_superfeature_H[1,2]_50.0_envpartner_ASP_86_A[10]_2.0.txt",
         <<"D", "_", "d", "a", "t", "a", "_", "s", "u", "p", "e", "r", "f",
         "e", "a", "t", "u", "r", "e", "_", "H", "[", "1", ",", "2", "]",
         "_", "5", "0", ".", "0", "_", "e", "n", "v", "p", "a", "r", "t",
         "n", "e", "r", "_", "A", "S", "P", "_", "8", "6", "_", "A", "[",
         "1", "0", "]", "_", "2", ".", "0", ".", "t", "x", "t">> >>,
      <<"D_data_superfeature_HBA[3]_50.0_envpartner_ILE_010_B[7,8]_1.6.txt",
         <<"D", "_", "d", "a", "t", "a", "_", "s", "u", "p", "e", "r", "f",
         "e", "a", "t", "u", "r", "e", "_", "H", "B", "A", "[", "3", "]",
         "_", "5", "0", ".", "0", "_", "e", "n", "v", "p", "a", "r", "t",
         "n", "e", "r", "_", "I", "L", "E", "_", "0", "1", "0", "_", "B",
         "[", "7", ",", "8", "]", "_", "1", ".", "6", ".", "t", "x", "t">> >>,
      <<"D_data_superfeature_H[12_50.0.txt",
         <<"D", "_", "d", "a", "t", "a", "_", "s", "u", "p", "e", "r", "f",
         "e", "a", "t", "u", "r", "e", "_", "H", "[", "1", "2", "_", "5",
         "0", ".", "0", ".", "t", "x", "t">> >>,
      <<"README.txt",
         <<"R", "E", "A", "D", "M", "E", ".", "t", "x", "t">> >>,
      <<"E_data_superfeature_AR[5]_50.0.txt",
         <<"E", "_", "d", "a", "t", "a", "_", "s", "u", "p", "e", "r", "f",
         "e", "a", "t", "u", "r", "e", "_", "A", "R", "[", "5", "]", "_",
         "5", "0", ".", "0", ".", "t", "x", "t">> >>,
      <<"D",
         <<"D">> >>,
      <<"E",
         <<"E">> >>,
      <<"H[1,2]",
         <<"H", "[", "1", ",", "2", "]">> >>,
      <<"HBA[3]",
         <<"H", "B", "A", "[", "3", "]">> >>,
      <<"H[12",
         <<"H", "[", "1", "2">> >>,
      <<"AR[5]",
         <<"A", "R", "[", "5", "]">> >>,
      <<"H",
         <<"H">> >>,
      <<"HBA",
         <<"H", "B", "A">> >>,
      <<"AR",
         <<"A", "R">> >>,
      <<"ASP-86-A[10]",
         <<"A", "S", "P", "-", "8", "6", "-", "A", "[", "1", "0", "]">> >>,
      <<"ILE-010-B[7,8]",
         <<"I", "L", "E", "-", "0", "1", "0", "-", "B", "[", "7", ",", "8",
         "]">> >>,
      <<"ASP",
         <<"A", "S", "P">> >>,
      <<"ILE",
         <<"I", "L", "E">> >>,
      <<"A",
         <<"A">> >>,
      <<"B",
         <<"B">> >>,
      <<"any",
         <<"a", "n", "y">> >>,
      <<"ASP-86-A",
         <<"A", "S", "P", "-", "8", "6", "-", "A">> >>,
      <<"ILE-10-B",
         <<"I", "L", "E", "-", "1", "0", "-", "B">> >> }

Chars(string) == (CHOOSE p \in StrTable : p[1] = string)[2]
Str(chars) == (CHOOSE p \in StrTable : p[2] = chars)[1]

----------------------------------------------------------------------------
(* The files a directory may hold *)

n_H == "D_data_superfeature_H[1,2]_50.0.txt"
n_H_again == "D_data_superfeature_H[1,2]_60.0.txt"
n_HBA == "D_data_superfeature_HBA[3]_50.0.txt"
n_H_ASP == "D_data_superfeature_H[1,2]_50.0_envpartner_ASP_86_A[10]_1.6.txt"
n_H_ASP_again == "D_data_superfeature_H[1,2]_50.0_envpartner_ASP_86_A[10]_2.0.txt"
n_HBA_ILE == "D_data_superfeature_HBA[3]_50.0_envpartner_ILE_010_B[7,8]_1.6.txt"
n_unclosed == "D_data_superfeature_H[12_50.0.txt"
n_readme == "README.txt"
n_other == "E_data_superfeature_AR[5]_50.0.txt"

Ints(rows) == [format |-> "ints", rows |-> rows]
Csv(rows) == [format |-> "csv", rows |-> rows]
Text == [format |-> "text", rows |-> <<"not a number">>]

File(name, content) == [name |-> name, content |-> content]

Files ==
    { File(n_H, Ints(<<1, 0, 1>>)),
      File(n_H, Ints(<<1>>)),
      File(n_H_again, Ints(<<0, 1, 0>>)),
      File(n_HBA, Ints(<<1, 0, 1>>)),
      File(n_HBA, Ints(<<1, 1>>)),
      File(n_HBA, Text),
      File(n_H_ASP, Csv(<< <<12, 1>>, <<0, 0>>, <<15, 1>> >>)),
      File(n_H_ASP, Csv(<< <<12, 1>>, <<0, 0>> >>)),
      File(n_H_ASP, Csv(<< <<12, 1>> >>)),
      File(n_H_ASP_again, Csv(<< <<0, 0>>, <<0, 0>>, <<20, 1>> >>)),
      File(n_HBA_ILE, Csv(<< <<0, 0>>, <<31, 1>>, <<0, 0>> >>)),
      File(n_HBA_ILE, Csv(<<>>)),
      File(n_unclosed, Ints(<<1, 0, 1>>)),
      File(n_readme, Text),
      File(n_other, Ints(<<1, 0, 1>>)) }

----------------------------------------------------------------------------
(* numpy and builtins used by the loader and the aggregates *)

\* np.loadtxt ends with np.squeeze (ndmin=0): one row gives a 0-d array
np_squeeze(data) == [nd |-> IF Len(data) = 1 THEN 0 ELSE 1, data |-> data]

\* np.loadtxt(fname, dtype=int): whitespace-separated integers.  An empty
\* file gives an empty array; a comma-separated or non-numeric line is no
\* integer literal
loadtxt_int(content) ==
    IF Len(content.rows) = 0 THEN Return(np_squeeze(<<>>))
    ELSE IF content.format = "ints" THEN Return(np_squeeze(content.rows))
    ELSE Raise("ValueError")

RECURSIVE Column(_, _)
Column(rows, k) ==
    IF Len(rows) = 0 THEN <<>> ELSE <<rows[1][k]>> \o Column(Tail(rows), k)

\* np.loadtxt(fname, dtype=..., delimiter=",", usecols=col): column col of a
\* comma-separated file.  A one-column or non-numeric file raises (the
\* exception's type depends on the numpy release; ValueError stands for it)
loadtxt_usecols(content, col) ==
    IF Len(content.rows) = 0 THEN Return(np_squeeze(<<>>))
    ELSE IF content.format = "csv"
    THEN Return(np_squeeze(Column(content.rows, col + 1)))
    ELSE Raise("ValueError")

\* len(array)
len(a) == IF a.nd = 0 THEN Raise("TypeError") ELSE Return(Len(a.data))

RECURSIVE SeqSum(_)
SeqSum(q) == IF Len(q) = 0 THEN 0 ELSE q[1] + SeqSum(Tail(q))

\* sum(array): iterates the array
sum(a) == IF a.nd = 0 THEN Raise("TypeError") ELSE Return(SeqSum(a.data))

----------------------------------------------------------------------------
(* EnvPartner and Superfeature *)

\* EnvPartner.__init__ without its length check
EnvPartner_init_unchecked(id, residue_name, residue_number, chain, atom_numbers, occurrences, distances) ==
    Return([id |-> id,
            residue_name |-> residue_name,
            residue_number |-> residue_number,
            chain |-> chain,
            atom_numbers |-> atom_numbers,
            occurrences |-> occurrences,
            distances |-> distances])

EnvPartner_init(id, residue_name, residue_number, chain, atom_numbers, occurrences, distances) ==
    Then(len(occurrences), LAMBDA n_occurrences :
    Then(len(distances), LAMBDA n_distances :
        IF n_occurrences # n_distances THEN Raise("ValueError")
        ELSE Return([id |-> id,
                     residue_name |-> residue_name,
                     residue_number |-> residue_number,
                     chain |-> chain,
                     atom_numbers |-> atom_numbers,
                     occurrences |-> occurrences,
                     distances |-> distances])))

\* EnvPartner.count
EnvPartner_count(envpartner) == sum(envpartner.occurrences)

Superfeature_init(id, feature_type, atom_numbers, occurrences, envpartners) ==
    [id |-> id,
     feature_type |-> feature_type,
     atom_numbers |-> atom_numbers,
     occurrences |-> occurrences,
     envpartners |-> envpartners]

\* Superfeature.n_frames
Superfeature_n_frames(superfeature) == len(superfeature.occurrences)

----------------------------------------------------------------------------
(* Dynophore.from_file *)

\* the content of the file at path (np.loadtxt opens it)
ReadFile(dir, path) == (CHOOSE f \in dir : f.name = path).content

\* the inner loop: one EnvPartner per environment-partner record, in order
RECURSIVE load_envpartners(_, _, _)
load_envpartners(dir, records, envpartners) ==
    IF Len(records) = 0 THEN Return(envpartners)
    ELSE
    LET c == records[1]
    IN  Then(loadtxt_usecols(ReadFile(dir, c.filepath), 1), LAMBDA occurrences :
        Then(loadtxt_usecols(ReadFile(dir, c.filepath), 0), LAMBDA distances :
        Then(EnvPartner_init(Get(c.envpartner_id),
                             Get(c.envpartner_residue_name),
                             Get(c.envpartner_residue_number),
                             Get(c.envpartner_chain),
                             Get(c.envpartner_atom_numbers),
                             occurrences, distances), LAMBDA envpartner :
            load_envpartners(dir, Tail(records), Append(envpartners, envpartner)))))

IsSuperfeatureRecord(c) == IsNone(c.envpartner_id)

\* the records of the environment partners of one superfeature record
EnvPartnerRecords(components, sc) ==
    LET Mine(c) == /\ c.superfeature_id = sc.superfeature_id
                   /\ ~IsNone(c.envpartner_id)
    IN  SelectSeq(components, Mine)

\* the outer loop: one Superfeature per superfeature record, in order
RECURSIVE load_superfeatures(_, _, _, _)
load_superfeatures(dir, components, records, superfeatures) ==
    IF Len(records) = 0 THEN Return(superfeatures)
    ELSE
    LET sc == records[1]
    IN  Then(load_envpartners(dir, EnvPartnerRecords(components, sc), <<>>),
             LAMBDA envpartners :
        Then(loadtxt_int(ReadFile(dir, sc.filepath)), LAMBDA occurrences :
            load_superfeatures(dir, components, Tail(records),
                Append(superfeatures,
                       Superfeature_init(sc.superfeature_id,
                                         sc.superfeature_feature_type,
                                         sc.superfeature_atom_numbers,
                                         occurrences, envpartners)))))

OptStr(x) == IF IsNone(x) THEN None ELSE Some(Str(Get(x)))

\* a parser record with its str fields as strings
AsStrings(c) ==
    [c EXCEPT !.filepath = Str(@),
              !.dynophore_id = Str(@),
              !.superfeature_id = Str(@),
              !.superfeature_feature_type = Str(@),
              !.envpartner_id = OptStr(@),
              !.envpartner_residue_name = OptStr(@),
              !.envpartner_chain = OptStr(@)]

\* _get_file_components reads nothing but the name: its results for the
\* names of Files are computed once and looked up
FileComponents ==
    { <<f.name, Then(get_file_components(Chars(f.name)),
                     LAMBDA c : Return(AsStrings(c)))>> : f \in Files }

file_components_of(path) == (CHOOSE p \in FileComponents : p[1] = path)[2]

\* [self._get_file_components(i) for i in dynophore_files]
RECURSIVE get_files_components(_, _)
get_files_components(files, components) ==
    IF Len(files) = 0 THEN Return(components)
    ELSE Then(file_components_of(files[1]), LAMBDA c :
              get_files_components(Tail(files), Append(components, c)))

\* the object after a call that ran the block r on object obj: assigned only
\* if the block reached its end
Assigned(obj, r) ==
    IF r.exc # "None" THEN [exc |-> r.exc, obj |-> obj]
    ELSE [exc |-> "None", obj |-> r.val]

\* from_file with self.id assigned before the loops instead of after them
from_file_id_first(obj, dir, listing) ==
    LET parsed == get_files_components(listing, <<>>)
    IN  IF parsed.exc # "None" THEN [exc |-> parsed.exc, obj |-> obj]
        ELSE IF Len(parsed.val) = 0 THEN [exc |-> "IndexError", obj |-> obj]
        ELSE
        LET r == load_superfeatures(dir, parsed.val,
                     SelectSeq(parsed.val, IsSuperfeatureRecord), <<>>)
            named == [obj EXCEPT !.id = Some(parsed.val[1].dynophore_id)]
        IN  IF r.exc # "None" THEN [exc |-> r.exc, obj |-> named]
            ELSE [exc |-> "None", obj |-> [named EXCEPT !.superfeatures = r.val]]

\* from_file on object obj, the directory dir listed in the order `listing`:
\* the exception raised ("None" if none) and the object after the call
from_file(obj, dir, listing) ==
    Assigned(obj,
        Then(get_files_components(listing, <<>>), LAMBDA components :
        Then(load_superfeatures(dir, components,
                 SelectSeq(components, IsSuperfeatureRecord), <<>>),
             LAMBDA superfeatures :
            IF Len(components) = 0 THEN Raise("IndexError")
            ELSE Return([id |-> Some(components[1].dynophore_id),
                         superfeatures |-> superfeatures]))))

\* the most files the directory holds
MaxFiles == 3

\* the orders in which glob("*") may list the directory
Listings(dir) ==
    LET names == {f.name : f \in dir}
        n == Cardinality(names)
    IN  {l \in [1..n -> names] : \A i, j \in 1..n : l[i] = l[j] => i = j}

----------------------------------------------------------------------------
(* Aggregates.  A pandas Series is the sequence of its <<label, value>>
   entries; a dict is the same, with one entry per key.  Labels and keys
   are strings. *)

HasKey(d, k) == \E i \in 1..Len(d) : d[i][1] = k

\* a dict whose keys keep their first value
dict_set_keep_first(d, k, v) == IF HasKey(d, k) THEN d ELSE Append(d, <<k, v>>)

\* d[k] = v on a dict: a new key is appended, an old key keeps its place and
\* takes the new value
dict_set(d, k, v) ==
    IF HasKey(d, k)
    THEN [i \in 1..Len(d) |-> IF d[i][1] = k THEN <<k, v>> ELSE d[i]]
    ELSE Append(d, <<k, v>>)

\* d[k]
dict_get(d, k) == d[CHOOSE i \in 1..Len(d) : d[i][1] = k][2]

Labels(series) == {series[i][1] : i \in 1..Len(series)}

\* {envpartner.id: envpartner.count for envpartner in self.envpartners}
RECURSIVE envpartners_count(_, _)
envpartners_count(envpartners, d) ==
    IF Len(envpartners) = 0 THEN Return(d)
    ELSE LET count == EnvPartner_count(envpartners[1])
         IN  IF count.exc # "None" THEN Raise(count.exc)
             ELSE envpartners_count(Tail(envpartners),
                                    dict_set(d, envpartners[1].id, count.val))

\* Superfeature.count
Superfeature_count(superfeature) ==
    LET any == sum(superfeature.occurrences)
        partners == envpartners_count(superfeature.envpartners, <<>>)
    IN  IF any.exc # "None" THEN Raise(any.exc)
        ELSE IF partners.exc # "None" THEN Raise(partners.exc)
        ELSE Return(<< <<"any", any.val>> >> \o partners.val)

\* {superfeature.id: superfeature.count for superfeature in self.superfeatures}
RECURSIVE superfeatures_count(_, _)
superfeatures_count(superfeatures, d) ==
    IF Len(superfeatures) = 0 THEN Return(d)
    ELSE LET count == Superfeature_count(superfeatures[1])
         IN  IF count.exc # "None" THEN Raise(count.exc)
             ELSE superfeatures_count(Tail(superfeatures),
                                      dict_set(d, superfeatures[1].id, count.val))

\* Dynophore.count: a DataFrame, given by its column labels, its row labels
\* (the union of the columns' labels) and its cells; fillna(0) fills the
\* cells a column has no entry for.  No Series here holds a label twice (a
\* partner id holds two '-', "any" none), so the columns align.
Dynophore_count(obj) ==
    LET d == superfeatures_count(obj.superfeatures, <<>>)
    IN  IF d.exc # "None" THEN Raise(d.exc)
        ELSE
        LET columns == [i \in 1..Len(d.val) |-> d.val[i][1]]
            index == UNION {Labels(d.val[i][2]) : i \in 1..Len(d.val)}
        IN  Return([columns |-> columns,
                    index |-> index,
                    cell |-> [rc \in index \X {columns[i] : i \in 1..Len(columns)} |->
                                LET series == dict_get(d.val, rc[2])
                                IN  IF HasKey(series, rc[1])
                                    THEN dict_get(series, rc[1]) ELSE 0]])

\* Dynophore.n_frames
Dynophore_n_frames(obj) ==
    IF Len(obj.superfeatures) = 0 THEN Raise("IndexError")
    ELSE len(obj.superfeatures[1].occurrences)

(* Frequencies.  A float is <<"float", h>> with h its value in hundredths
   (every value here is rounded to 2 decimals), or nan or inf. *)
Float(h) == <<"float", h>>
nan == <<"nan", 0>>
inf == <<"inf", 0>>

\* round(x / n_frames * 100, 2) for n_frames > 0, in hundredths: the quotient
\* is rounded after the division, a tie to the even neighbour
round_2(x, n_frames) ==
    LET q == (x * 10000) \div n_frames
        r == (x * 10000) % n_frames
    IN  IF 2 * r > n_frames \/ (2 * r = n_frames /\ q % 2 = 1) THEN q + 1 ELSE q

\* round(x / n_frames * 100, 2) on Python numbers: dividing by 0 raises
percent(x, n_frames) ==
    IF n_frames = 0 THEN Raise("ZeroDivisionError")
    ELSE Return(Float(round_2(x, n_frames)))

\* round(x / n_frames * 100, 2) on a value of a pandas column: dividing by
\* 0 gives nan or inf
percent_column(x, n_frames) ==
    IF n_frames = 0 THEN (IF x = 0 THEN nan ELSE inf)
    ELSE Float(round_2(x, n_frames))

\* EnvPartner.frequency
EnvPartner_frequency(envpartner) ==
    Then(sum(envpartner.occurrences), LAMBDA count :
    Then(len(envpartner.occurrences), LAMBDA n_frames :
        percent(count, n_frames)))

\* series.apply(f) for an f that may raise
RECURSIVE series_apply(_, _, _)
series_apply(series, n_frames, applied) ==
    IF Len(series) = 0 THEN Return(applied)
    ELSE Then(percent(series[1][2], n_frames), LAMBDA value :
              series_apply(Tail(series), n_frames,
                           Append(applied, <<series[1][1], value>>)))

\* Superfeature.frequency: self.n_frames is read inside the lambda, once per
\* entry of self.count (which has the entry "any" at least)
Superfeature_frequency(superfeature) ==
    Then(Superfeature_count(superfeature), LAMBDA count :
    Then(Superfeature_n_frames(superfeature), LAMBDA n_frames :
        series_apply(count, n_frames, <<>>)))

\* the DataFrame of Dynophore.frequency before apply: no fillna, a cell its
\* column has no entry for is missing (nan)
frequency_table(d, n_frames) ==
    LET columns == [i \in 1..Len(d) |-> d[i][1]]
        index == UNION {Labels(d[i][2]) : i \in 1..Len(d)}
    IN  [columns |-> columns,
         index |-> index,
         cell |-> [rc \in index \X {columns[i] : i \in 1..Len(columns)} |->
                     LET series == dict_get(d, rc[2])
                     IN  IF HasKey(series, rc[1])
                         THEN percent_column(dict_get(series, rc[1]), n_frames)
                         ELSE nan]]

\* Dynophore.frequency: every column is divided by the Dynophore's n_frames.
\* On a frame without columns pandas swallows what the lambda raises and
\* returns the empty frame
Dynophore_frequency(obj) ==
    Then(superfeatures_count(obj.superfeatures, <<>>), LAMBDA d :
        IF Len(d) = 0 THEN Return(frequency_table(d, 0))
        ELSE Then(Dynophore_n_frames(obj), LAMBDA n_frames :
                  Return(frequency_table(d, n_frames))))

(* Tables of the partners' series.  A DataFrame is its column labels and,
   per column, the values of its rows in row order (row i is the index i-1);
   labels may repeat. *)

SeqMax(a, b) == IF a > b THEN a ELSE b

\* the length of the longest of the arrays
RECURSIVE widest(_)
widest(arrays) ==
    IF Len(arrays) = 0 THEN 0
    ELSE SeqMax(Len(arrays[1].data), widest(Tail(arrays)))

pad(values, n) == values \o [i \in 1..(n - Len(values)) |-> nan]

\* pd.DataFrame(arrays, index=index).transpose(): one column per array, in
\* order, labelled by index; pandas fills the arrays shorter than the longest
\* with nan
DataFrame_transpose(arrays, index) ==
    [columns |-> index,
     data |-> [j \in 1..Len(arrays) |-> pad(arrays[j].data, widest(arrays))]]

\* Superfeature._get_envpartners_data(type) as Dynophore._get_envpartners_data
\* inlines it: the frame of one superfeature
envpartners_frame(superfeature, type) ==
    DataFrame_transpose(
        [j \in 1..Len(superfeature.envpartners) |-> superfeature.envpartners[j][type]],
        [j \in 1..Len(superfeature.envpartners) |-> superfeature.envpartners[j].id])

RECURSIVE envpartners_frames(_, _, _)
envpartners_frames(superfeatures, type, envpartners) ==
    IF Len(superfeatures) = 0 THEN envpartners
    ELSE envpartners_frames(Tail(superfeatures), type,
             dict_set(envpartners, superfeatures[1].id,
                      envpartners_frame(superfeatures[1], type)))

\* Dynophore._get_envpartners_data(type)
Dynophore_get_envpartners_data(obj, type) ==
    IF type \notin {"occurrences", "distances"} THEN Raise("ValueError")
    ELSE Return(envpartners_frames(obj.superfeatures, type, <<>>))

\* Dynophore.envpartners_occurrences
envpartners_occurrences(obj) == Dynophore_get_envpartners_data(obj, "occurrences")

\* Dynophore.envpartners_distances
envpartners_distances(obj) == Dynophore_get_envpartners_data(obj, "distances")

----------------------------------------------------------------------------
(* Initial state: a Dynophore as __init__ leaves it, an empty directory *)

Init ==
    /\ fs = {}
    /\ self = [id |-> None, superfeatures |-> <<>>]
    /\ loaded = <<>>
    /\ outcome = "init"
    /\ filepath = <<>>
    /\ file_components = Raise("init")
    /\ arg_occurrences = np_squeeze(<<>>)
    /\ arg_distances = np_squeeze(<<>>)
    /\ new_envpartner = Raise("init")
    /\ read_frequency = Raise("init")

(* The parser called on one file name; it is a pure function, so one call
   per behaviour covers it *)
ParseFile ==
    \E p \in ParserNames :
        /\ file_components.exc = "init"
        /\ filepath' = p
        /\ file_components' = get_file_components(p)
        /\ UNCHANGED <<fs, self, loaded, outcome>>
        /\ UNCHANGED envpartner_vars

SpecParser == Init /\ [][ParseFile]_vars

(* A file appears in the directory *)
WriteFile ==
    \E f \in Files :
        /\ Cardinality(fs) < MaxFiles
        /\ \A g \in fs : g.name # f.name
        /\ fs' = fs \cup {f}
        /\ UNCHANGED <<self, loaded, outcome, filepath, file_components>>
        /\ UNCHANGED envpartner_vars

(* self.from_file(dynophore_path) *)
FromFile ==
    \E listing \in Listings(fs) :
        LET r == from_file(self, fs, listing)
        IN  /\ outcome' = r.exc
            /\ self' = r.obj
            /\ loaded' = IF r.exc = "None" THEN listing ELSE loaded
            /\ UNCHANGED <<fs, filepath, file_components>>
            /\ UNCHANGED envpartner_vars

Next == WriteFile \/ FromFile

Spec == Init /\ [][Next]_vars

(* EnvPartner on its own: the constructor called on any two arrays, then
   frequency read from the object it built *)

\* the longest series given to the constructor
MaxFrames == 3

\* the arrays with entries from values: 1-D of 0..MaxFrames entries, and 0-d
Arrays(values) ==
    {[nd |-> 1, data |-> q] : q \in UNION {[1..n -> values] : n \in 0..MaxFrames}}
        \cup {[nd |-> 0, data |-> <<v>>] : v \in values}

InitEnvPartner ==
    /\ fs = {}
    /\ self = [id |-> None, superfeatures |-> <<>>]
    /\ loaded = <<>>
    /\ outcome = "init"
    /\ filepath = <<>>
    /\ file_components = Raise("init")
    /\ arg_occurrences \in Arrays({0, 1})
    /\ arg_distances \in Arrays({0, 12})
    /\ new_envpartner = Raise("init")
    /\ read_frequency = Raise("init")

(* EnvPartner(id, residue_name, residue_number, chain, atom_numbers,
   occurrences, distances) *)
NewEnvPartner ==
    /\ new_envpartner.exc = "init"
    /\ new_envpartner' = EnvPartner_init("ASP-86-A[10]", "ASP", 86, "A", <<10>>,
                                         arg_occurrences, arg_distances)
    /\ UNCHANGED <<fs, self, loaded, outcome, filepath, file_components>>
    /\ UNCHANGED <<arg_occurrences, arg_distances, read_frequency>>

(* envpartner.frequency *)
ReadFrequency ==
    /\ new_envpartner.exc = "None"
    /\ read_frequency.exc = "init"
    /\ read_frequency' = EnvPartner_frequency(new_envpartner.val)
    /\ UNCHANGED <<fs, self, loaded, outcome, filepath, file_components>>
    /\ UNCHANGED <<arg_occurrences, arg_distances, new_envpartner>>

NextEnvPartner == NewEnvPartner \/ ReadFrequency

SpecEnvPartner == InitEnvPartner /\ [][NextEnvPartner]_vars

----------------------------------------------------------------------------
(* Properties *)

\* the number of rows of the file at path
RowCount(path) == Len(ReadFile(fs, path).rows)

\* C1: no load yields a Superfeature one of whose EnvPartners has an
\* occurrence series of another length than the Superfeature's own (a
\* directory with such files is refused).
C1_PartnerLengthsMatch ==
    \A i \in 1..Len(self.superfeatures) :
        LET superfeature == self.superfeatures[i]
        IN  \A j \in 1..Len(superfeature.envpartners) :
                Len(superfeature.envpartners[j].occurrences.data)
                    = Len(superfeature.occurrences.data)

\* C2: construction is all-or-nothing: a step that ends with from_file's
\* error leaves the Dynophore (id and superfeatures) as it was.
C2_AllOrNothing == [][outcome' \notin {"None", "init"} => self' = self]_vars

\* C2's case: a load has failed on an object an earlier load had filled, after
\* every file name had been parsed (the failure came from the file contents)
C2_Witness ==
    /\ outcome \in {"ValueError", "TypeError"}
    /\ Len(self.superfeatures) > 0
    /\ \E f \in fs : f.name \notin {loaded[i] : i \in 1..Len(loaded)}

\* C3: after a successful load all Superfeatures have the same frame count,
\* and Dynophore.n_frames (where it is defined) is the row count of every
\* file of the directory that was loaded.
C3_OneFrameCount ==
    (outcome = "None" /\ Dynophore_n_frames(self).exc = "None") =>
        LET n == Dynophore_n_frames(self).val
        IN  /\ \A i \in 1..Len(self.superfeatures) :
                  Superfeature_n_frames(self.superfeatures[i]) = Return(n)
            /\ \A k \in 1..Len(loaded) : RowCount(loaded[k]) = n

\* the places <<i, j>> of the EnvPartners of the Dynophore: the j-th partner
\* of the i-th superfeature
PartnerSlots ==
    UNION { { <<i, j>> : j \in 1..Len(self.superfeatures[i].envpartners) } :
            i \in 1..Len(self.superfeatures) }

PartnerAt(slot) == self.superfeatures[slot[1]].envpartners[slot[2]]

\* the segments of a file name of the directory, as characters
Segments(path) == str_split(stem(Chars(path)), "_")

\* C4 (as claimed): an EnvPartner's id is "{residue_name}-{residue_number}-
\* {chain}", built from its own fields, without the bracketed atom list.
C4_IdFromFields ==
    \A slot \in PartnerSlots :
        LET e == PartnerAt(slot)
        IN  Chars(e.id) = Chars(e.residue_name) \o <<"-">>
                            \o int_str(e.residue_number) \o <<"-">> \o Chars(e.chain)

\* C4 (amended): an EnvPartner's id is segments 6, 7 and 8 of the name of an
\* environment-partner file of its superfeature, joined by '-': the residue
\* name, the residue number as the name writes it, and the chain token with
\* its bracketed atom list; its other fields are decoded from the same
\* segments.
C4_IdFromSegments ==
    \A slot \in PartnerSlots :
        LET e == PartnerAt(slot)
        IN  \E k \in 1..Len(loaded) :
                LET seg == Segments(loaded[k])
                IN  /\ Len(seg) = 10
                    /\ Chars(self.superfeatures[slot[1]].id) = seg[4]
                    /\ Chars(e.id) = seg[7] \o <<"-">> \o seg[8] \o <<"-">> \o seg[9]
                    /\ Chars(e.residue_name) = seg[7]
                    /\ int(seg[8]) = Return(e.residue_number)
                    /\ Chars(e.chain) = str_split(seg[9], "[")[1]

\* C4's case: a loaded partner whose residue number is written with a leading
\* zero, and whose chain token carries atoms
C4_Witness ==
    /\ outcome = "None"
    /\ \E slot \in PartnerSlots :
           /\ PartnerAt(slot).id = "ILE-010-B[7,8]"
           /\ PartnerAt(slot).residue_number = 10

\* C7: in a loaded Dynophore every environment-partner file of the directory
\* is one EnvPartner of one Superfeature (as many partners carry a file's
\* superfeature id and partner id as files of the directory do): none is
\* attached twice, none is left out.
C7_EachPartnerFileOnce ==
    outcome = "None" =>
        \A k \in 1..Len(loaded) :
            LET c == file_components_of(loaded[k]).val
                Same(d) == /\ d.superfeature_id = c.superfeature_id
                           /\ d.envpartner_id = c.envpartner_id
            IN  ~IsNone(c.envpartner_id) =>
                    Cardinality({ slot \in PartnerSlots :
                                    /\ self.superfeatures[slot[1]].id = c.superfeature_id
                                    /\ PartnerAt(slot).id = Get(c.envpartner_id) })
                    = Cardinality({ m \in 1..Len(loaded) :
                                    Same(file_components_of(loaded[m]).val) })

\* C8: a load that reports success has stored at least one superfeature (a
\* directory without superfeature data is refused).
C8_NeverEmpty == outcome = "None" => Len(self.superfeatures) > 0

----------------------------------------------------------------------------
(* Properties of the parser (specification SpecParser) *)

Opens(token) == {i \in 1..Len(token) : token[i] = "["}

\* the token has an opening bracket and ends with a closing one
HasBrackets(token) == Opens(token) # {} /\ token[Len(token)] = "]"

\* the text between the first '[' and the final ']'
Inside(token) ==
    SubSeq(token, (CHOOSE i \in Opens(token) : \A j \in Opens(token) : i <= j) + 1,
           Len(token) - 1)

\* the text before the first '[' (all of it, if there is none)
BeforeBracket(token) ==
    IF Opens(token) = {} THEN token
    ELSE SubSeq(token, 1, (CHOOSE i \in Opens(token) : \A j \in Opens(token) : i <= j) - 1)

\* <text>[<integers separated by commas>]
WellFormedToken(token) ==
    /\ HasBrackets(token)
    /\ int_each(str_split(Inside(token), ","), <<>>).exc = "None"

AtomsInside(token) == int_each(str_split(Inside(token), ","), <<>>).val

\* C5: the parser decodes by position: dynophore id = segment 0, superfeature
\* id = segment 3, feature type = its text before '[', atom ids = the integers
\* inside its brackets; the environment-partner fields are filled (from
\* segments 6, 7, 8) if and only if the stem has exactly 10 segments, and are
\* all None otherwise.
C5_PositionalDecoding ==
    file_components.exc = "None" =>
        LET seg == str_split(stem(filepath), "_")
            c == file_components.val
        IN  /\ c.filepath = filepath
            /\ c.dynophore_id = seg[1]
            /\ c.superfeature_id = seg[4]
            /\ c.superfeature_feature_type = BeforeBracket(seg[4])
            /\ WellFormedToken(seg[4]) =>
                   c.superfeature_atom_numbers = AtomsInside(seg[4])
            /\ (Len(seg) = 10) <=> ~IsNone(c.envpartner_id)
            /\ Len(seg) = 10 =>
                   /\ c.envpartner_residue_name = Some(seg[7])
                   /\ int(seg[8]) = Return(Get(c.envpartner_residue_number))
                   /\ c.envpartner_chain = Some(BeforeBracket(seg[9]))
                   /\ WellFormedToken(seg[9]) =>
                          c.envpartner_atom_numbers = Some(AtomsInside(seg[9]))
                   /\ c.envpartner_id =
                          Some(seg[7] \o <<"-">> \o seg[8] \o <<"-">> \o seg[9])
            /\ Len(seg) # 10 =>
                   /\ IsNone(c.envpartner_id)
                   /\ IsNone(c.envpartner_residue_name)
                   /\ IsNone(c.envpartner_residue_number)
                   /\ IsNone(c.envpartner_chain)
                   /\ IsNone(c.envpartner_atom_numbers)

\* C5's cases: an environment-partner name decoded, and a longer name left
\* without environment-partner fields
C5_Witness ==
    /\ file_components.exc = "None"
    /\ Len(str_split(stem(filepath), "_")) = 10
    /\ file_components.val.envpartner_residue_number = Some(86)
    /\ file_components.val.envpartner_atom_numbers = Some(<<7, 8>>)

\* a name the grammar does not accept: fewer than 4 segments, a superfeature
\* or chain token without '[', without the closing ']' or with a non-integer
\* atom, a non-integer residue number
Malformed(path) ==
    LET seg == str_split(stem(path), "_")
    IN  \/ Len(seg) < 4
        \/ ~WellFormedToken(seg[4])
        \/ /\ Len(seg) = 10
           /\ \/ ~WellFormedToken(seg[9])
              \/ int(seg[8]).exc # "None"

\* C6: for a malformed file name the parser raises; it returns no record.
C6_MalformedRejected ==
    (file_components.exc # "init" /\ Malformed(filepath)) =>
        file_components.exc # "None"

----------------------------------------------------------------------------
(* Properties of the aggregates *)

\* the place of the last partner of the superfeature that has this id
LastWithId(superfeature, id) ==
    CHOOSE j \in 1..Len(superfeature.envpartners) :
        /\ superfeature.envpartners[j].id = id
        /\ \A m \in 1..Len(superfeature.envpartners) :
               superfeature.envpartners[m].id = id => m <= j

PartnerIds(superfeature) ==
    {superfeature.envpartners[j].id : j \in 1..Len(superfeature.envpartners)}

\* the keys of the count are "any" and the partners' ids, each once, and the
\* value at "any" is the sum of the superfeature's own occurrences
CountKeys(superfeature, count) ==
    /\ Labels(count) = {"any"} \cup PartnerIds(superfeature)
    /\ Len(count) = Cardinality(Labels(count))
    /\ dict_get(count, "any") = SeqSum(superfeature.occurrences.data)

C10_CountTable ==
    LET table == Dynophore_count(self)
    IN  (Len(self.superfeatures) > 0 /\ table.exc = "None") =>
            /\ Len(table.val.columns) = Len(self.superfeatures)
            /\ table.val.index =
                   {"any"} \cup UNION {PartnerIds(self.superfeatures[i]) :
                                         i \in 1..Len(self.superfeatures)}
            /\ \A i \in 1..Len(self.superfeatures) : \A r \in table.val.index :
                   LET count == Superfeature_count(self.superfeatures[i]).val
                       cell == table.val.cell[<<r, self.superfeatures[i].id>>]
                   IN  /\ cell >= 0
                       /\ cell = IF HasKey(count, r) THEN dict_get(count, r) ELSE 0

----------------------------------------------------------------------------
(* C11 *)

SuperfeatureIds == {self.superfeatures[i].id : i \in 1..Len(self.superfeatures)}

DistinctSuperfeatureIds == Cardinality(SuperfeatureIds) = Len(self.superfeatures)

\* the partners of a superfeature that have the id k
PartnersWithId(superfeature, k) ==
    {superfeature.envpartners[j] : j \in {j \in 1..Len(superfeature.envpartners) :
                                            superfeature.envpartners[j].id = k}}

\* C11: after a load, where Dynophore.frequency and the frequency of every
\* superfeature are defined and no two superfeatures share an id: for every
\* superfeature S and every key k of S.count, Dynophore.frequency at (k, S)
\* equals S.frequency[k], which equals S.count[k] / S.n_frames * 100 rounded
\* to 2 decimals, and for a partner key equals that EnvPartner's frequency
C11_SameFrequencyAtEveryLevel ==
    (/\ outcome = "None"
     /\ DistinctSuperfeatureIds
     /\ Dynophore_frequency(self).exc = "None"
     /\ \A i \in 1..Len(self.superfeatures) :
            Superfeature_frequency(self.superfeatures[i]).exc = "None")
    => \A i \in 1..Len(self.superfeatures) :
          LET S == self.superfeatures[i]
              count == Superfeature_count(S).val
              frequency == Superfeature_frequency(S).val
              n_frames == Superfeature_n_frames(S).val
              table == Dynophore_frequency(self).val
          IN  \A k \in Labels(count) :
                /\ table.cell[<<k, S.id>>] = dict_get(frequency, k)
                /\ n_frames > 0
                /\ dict_get(frequency, k) = Float(round_2(dict_get(count, k), n_frames))
                /\ \A e \in PartnersWithId(S, k) :
                      EnvPartner_frequency(e) = Return(dict_get(frequency, k))

----------------------------------------------------------------------------
(* C12 *)

\* C12: for every EnvPartner that was constructed, frequency is defined,
\* equals count / n_frames * 100 rounded to 2 decimals, and lies between 0
\* and 100
C12_FrequencyDefined ==
    (new_envpartner.exc = "None" /\ read_frequency.exc # "init")
    => /\ read_frequency.exc = "None"
       /\ read_frequency.val =
              Float(round_2(SeqSum(new_envpartner.val.occurrences.data),
                            Len(new_envpartner.val.occurrences.data)))
       /\ read_frequency.val[2] >= 0
       /\ read_frequency.val[2] <= 10000

----------------------------------------------------------------------------
(* C14 *)

\* C14: the constructor called on two series of unequal lengths raises and
\* sets no attribute; called on two series of equal lengths it returns the
\* object holding them; so every EnvPartner that exists has occurrences and
\* distances of one length
C14_UnequalLengthsRejected ==
    /\ (new_envpartner.exc # "init" /\ arg_occurrences.nd = 1 /\ arg_distances.nd = 1)
       => IF Len(arg_occurrences.data) # Len(arg_distances.data)
          THEN new_envpartner = Raise("ValueError")
          ELSE /\ new_envpartner.exc = "None"
               /\ new_envpartner.val.occurrences = arg_occurrences
               /\ new_envpartner.val.distances = arg_distances
    /\ new_envpartner.exc = "None"
       => len(new_envpartner.val.occurrences) = len(new_envpartner.val.distances)

\* the constructor has refused two series of unequal lengths
C14_Witness ==
    /\ new_envpartner.exc = "ValueError"
    /\ Len(arg_occurrences.data) = 2
    /\ Len(arg_distances.data) = 3

----------------------------------------------------------------------------
(* C13 *)

\* the files of the loaded listing that are partner files of the superfeature
\* id, in the listing's order
PartnerFilesOf(id) ==
    LET Mine(name) == /\ ~IsNone(file_components_of(name).val.envpartner_id)
                      /\ file_components_of(name).val.superfeature_id = id
    IN  SelectSeq(loaded, Mine)

\* the superfeature ids of the superfeature files of the loaded listing
LoadedSuperfeatureIds ==
    {file_components_of(loaded[i]).val.superfeature_id :
        i \in {i \in 1..Len(loaded) :
                 IsNone(file_components_of(loaded[i]).val.envpartner_id)}}

\* frame has one column per file of files, in order, and a column holds
\* column k of its file, row for row
Reproduces(frame, files, k) ==
    /\ Len(frame.columns) = Len(files)
    /\ \A j \in 1..Len(files) :
          LET rows == ReadFile(fs, files[j]).rows
          IN  /\ Len(frame.data[j]) = Len(rows)
              /\ frame.data[j] = Column(rows, k)

\* C13: after a load, for every superfeature file of the directory,
\* envpartners_distances[id] and envpartners_occurrences[id] have one column
\* per partner file of that superfeature, in the order of loading, and a
\* column reproduces the distance (occurrence) column of its file, frame by
\* frame
C13_RoundTrip ==
    outcome = "None"
    => \A id \in LoadedSuperfeatureIds :
          /\ HasKey(envpartners_distances(self).val, id)
          /\ HasKey(envpartners_occurrences(self).val, id)
          /\ Reproduces(dict_get(envpartners_distances(self).val, id),
                        PartnerFilesOf(id), 1)
          /\ Reproduces(dict_get(envpartners_occurrences(self).val, id),
                        PartnerFilesOf(id), 2)

----------------------------------------------------------------------------
(* C15 *)

\* C15: a load that succeeds builds the object that a load of the same
\* directory builds under every order in which the directory may be listed:
\* the same id, the same superfeatures in the same order, the same partners
\* in the same order under each
C15_Deterministic ==
    [][(outcome' = "None" /\ fs' = fs)
       => \A listing \in Listings(fs) :
             from_file(self, fs, listing) = [exc |-> "None", obj |-> self']]_vars

====
